---------------------------- MODULE Spec2Model ----------------------------
(***************************************************************************)
(* A model of meexprox (src/src/meexprox/meexprox.rs, event.rs, main.rs):  *)
(* one proxy (MeexProx), its event listeners, and one client connection    *)
(* driven by accept_client into a player session with its two forwarding   *)
(* tasks and its server swaps (reconnect / connect_to_server /             *)
(* connect_to_ip followed by ProxyPlayer::connect).                        *)
(*                                                                         *)
(* Threads.  ACC runs MeexProx::accept_client.  C2S and S2C are the two    *)
(* tasks tokio::spawn'ed by ProxyPlayer::connect.  SW is a thread of the   *)
(* embedding program that calls the public swap API.  CON(i) is the thread *)
(* the i-th swap spawns to run ProxyPlayer::connect(logged = false).       *)
(*                                                                         *)
(* Interface assumptions on the crates the code links against (their code  *)
(* is not part of the repository):                                         *)
(*  - rust_mc_proto::MinecraftConnection: try_clone() gives a handle on    *)
(*    the same socket that shares the compression threshold; close() shuts *)
(*    the socket down for every handle; connect() opens a connection with  *)
(*    no compression; isize::zigzag() is the zigzag ENCODING (n -> 2n for  *)
(*    n >= 0).                                                             *)
(*  - no_deadlocks::Mutex is not re-entrant.  A thread that locks a mutex  *)
(*    it already holds never returns from lock(): it either blocks for     *)
(*    ever, keeping what it holds ("deadlocked"), or panics and unwinds,   *)
(*    dropping its guards ("panicked").  Both outcomes are modelled.       *)
(*  - tokio: a spawned task whose body has no .await (both forwarding      *)
(*    loops) is cancelled by AbortHandle::abort() only if it has not been  *)
(*    polled yet; once running it runs to the end of its body.  A Tokio    *)
(*    runtime is assumed to be entered on the thread that runs             *)
(*    accept_client.                                                       *)
(***************************************************************************)
EXTENDS Integers, Sequences, FiniteSets, TLC

(* ------------------------------ bounds --------------------------------- *)

\* swap requests (calls of the swap API) per session
MaxSwaps == 1

\* packets read in the forwarding phase, both directions together
MaxPackets == 2

\* upstream packets read in the login phase before LoginSuccess / EOF
MaxLoginPkts == 2

\* client requests served in the status phase
MaxStatus == 2

\* registered event listeners (MeexProx::add_event_listener before start)
NListeners == 1

\* listeners the embedding program has to register
MaxListeners == 2

\* sessions accept_client pushes to players
MaxSessions == 3

\* bytes of a shared secret and of a verify token
MaxBytes == 2

(* ----------------------------- identities ------------------------------ *)

ACC == <<"acc", 0>>
C2S == <<"c2s", 0>>
S2C == <<"s2c", 0>>
SW == <<"sw", 0>>
CON(i) == <<"con", i>>
ConThreads == {CON(i) : i \in 1..MaxSwaps}
LoopThreads == {C2S, S2C}
Threads == {ACC, C2S, S2C, SW} \cup ConThreads
NoThread == <<"none", 0>>

\* the one session (Arc<Mutex<ProxyPlayer>>): its pointer
P1 == [ptr |-> 1]

\* sockets: the client's, the first upstream (number 1), and number 1 + k
\* for the upstream the k-th swap opens
ClientSock == 0
Socks == ClientSock..(MaxSwaps + 1)
UpSocks == Socks \ {ClientSock}

\* Option<T> is a set with at most one element
None == {}
Some(x) == {x}
IsSome(o) == o # {}
Unwrap(o) == CHOOSE x \in o : TRUE

\* the servers of the config: B has a forced host, A is a candidate default
Servers == {"A", "B"}
Hosts == {"hostB", "other"}
NextStates == {1, 2, 3}

\* the values of a byte of a shared secret / verify token
ByteVals == {1, 2}

\* raw values of the SetCompression varint as read by read_isize_varint
RawThresholds == {-1, 1}

(* ------------------------------ packets -------------------------------- *)

\* A packet: its id, what it is, a sequence number n and a body version b
\* (0 as received / as built, 1 as rewritten by a listener).  z is the
\* compression threshold of the codec that framed it, set when it is written.
Pkt(id, tag, n, b) == [id |-> id, tag |-> tag, n |-> n, b |-> b, z |-> None]
NoPkt == Pkt(-1, "none", 0, 0)

(* ------------------------------- state --------------------------------- *)

VARIABLES
  pc,        \* position of every thread
  mlock,     \* the thread that holds the proxy mutex from one step to the
             \* next (inside trigger_event, or stuck), or NoThread
  plock,     \* the thread stuck holding the session mutex, or NoThread
  cfg,       \* ProxyConfig: default_server
  player,    \* the fields of the ProxyPlayer
  players,   \* MeexProx.players
  sock,      \* state of every socket
  comp,      \* compression threshold of every socket's codec
  peer,      \* what every upstream socket is connected to; for the client
             \* socket: the server_address of the client's handshake
  sent,      \* frames the proxy wrote to every socket, in order
  lconn,     \* the upstream handle a thread holds in its local server_conn
  rlog,      \* per forwarding task: packets its Send event let through;
             \* for accept_client: status strings its event let through
  nread,     \* per thread: packets read so far (login / status / forwarding)
  nswaps,    \* calls of the swap API made so far
  nup,       \* upstream connections opened so far
  emitted,   \* per event kind: how often it was dispatched
  removed,   \* how often remove_player returned true
  inserted,  \* how often the session was pushed to players
  error,     \* the Err accept_client returned, "none" otherwise
  swaplog,   \* the calls of the swap API so far and how each ended
  stop,      \* per forwarding task: why its loop ended, "none" before
  event_listeners,  \* MeexProx.event_listeners, in registration order
  lastev,    \* the event the latest trigger_event call returned, with the
             \* calls of the listeners it made; kind "off": calls are not recorded
  ret,       \* the latest call of remove_player / get_player made by the
             \* embedding program: its argument, the players before and
             \* after it and what it returned; op "none" before the first
  disp       \* per thread: where it is in trigger_event (the listener it
             \* is at, and whether on_event of that listener is executing);
             \* the dispatches of the session's own actions are single steps

vars == <<pc, mlock, plock, cfg, player, players, sock, comp, peer, sent,
          lconn, rlog, nread, nswaps, nup, emitted, removed, inserted, error,
          swaplog, stop, event_listeners, lastev, ret, disp>>

\* the events counted in emitted; "status_cancelled" counts the
\* StatusRequestEvents a listener cancelled
PlayerEvents == {"connecting_server", "connecting_ip", "connected",
                 "disconnected", "status", "status_cancelled"}

\* the thread is not inside trigger_event
NoDispatch == [i |-> 0, on |-> FALSE]

\* ProxyPlayer::new: no name, uuid, secret or token, no task handles
NoPlayer ==
  [exists |-> FALSE, server_conn |-> 0, connection_threads |-> {},
   name |-> None, uuid |-> None, server |-> None,
   shared_secret |-> None, verify_token |-> None]

\* MeexProx::new and start(): no player, no connection but the client's
InitProxy ==
  /\ pc = [t \in Threads |->
             IF t = ACC THEN "accept"
             ELSE IF t = SW THEN "idle"
             ELSE "unspawned"]
  /\ mlock = NoThread
  /\ plock = NoThread
  /\ cfg \in {[default_server |-> d] : d \in {None, Some("A")}}
  /\ player = NoPlayer
  /\ players = << >>
  /\ sock = [s \in Socks |-> IF s = ClientSock THEN "open" ELSE "none"]
  /\ comp = [s \in Socks |-> None]
  /\ peer = [s \in Socks |-> "none"]
  /\ sent = [s \in Socks |-> << >>]
  /\ lconn = [t \in Threads |-> 0]
  /\ rlog = [t \in LoopThreads \cup {ACC} |-> << >>]
  /\ nread = [t \in Threads |-> 0]
  /\ nswaps = 0
  /\ nup = 0
  /\ emitted = [k \in PlayerEvents |-> 0]
  /\ removed = 0
  /\ inserted = 0
  /\ error = "none"
  /\ swaplog = << >>
  /\ stop = [t \in LoopThreads |-> "none"]

\* the proxy at start(), with its listeners registered
Init ==
  /\ InitProxy
  /\ event_listeners = [i \in 1..NListeners |-> i]
  /\ lastev = [kind |-> "off"]
  /\ ret = [op |-> "none"]
  /\ disp = [t \in Threads |-> NoDispatch]

(* ------------------------------ sockets -------------------------------- *)

\* read_packet() / write_packet() succeed only on a socket that is open;
\* a failure on an open socket is its peer closing or resetting it.
CanIo(s) == sock[s] = "open"
Fail(sk, s) == IF sk[s] = "open" THEN [sk EXCEPT ![s] = "dead"] ELSE sk

\* Why an operation on socket s fails: the proxy has shut the socket down
\* ("shut") or the peer is gone ("peer").
FailCause(s) == IF sock[s] = "shut" THEN "shut" ELSE "peer"

\* a faulty close(): it shuts the client's socket down as well
CloseAlsoClient(sk, s) == [sk EXCEPT ![s] = "shut", ![ClientSock] = "shut"]

\* MinecraftConnection::close(): shutdown of the socket, for every handle
Close(sk, s) == [sk EXCEPT ![s] = "shut"]

\* every handle of every socket is dropped (no ProxyPlayer holds a clone)
DropAll(sk) == [s \in Socks |-> IF sk[s] = "none" THEN "none" ELSE "closed"]

\* the frame written for packet p on socket s
Frame(p, s) == [p EXCEPT !.z = comp[s]]

\* a faulty write_packet(): the frame goes out twice
WriteTwice(sn, s, p) ==
  [sn EXCEPT ![s] = Append(Append(@, Frame(p, s)), Frame(p, s))]

\* write_packet(&packet) on socket s
Write(sn, s, p) == [sn EXCEPT ![s] = Append(@, Frame(p, s))]

(* ------------------------------- config -------------------------------- *)

\* a faulty lookup: no server has a forced host
NoForcedHost(host) == None

\* ProxyConfig::get_server_by_forced_host
get_server_by_forced_host(host) ==
  IF host = "hostB" THEN Some("B") ELSE None

default_server == cfg.default_server

\* .get_server_by_forced_host(..).or(default_server)
ResolveServer(host) ==
  IF IsSome(get_server_by_forced_host(host))
  THEN get_server_by_forced_host(host)
  ELSE default_server

(* ------------------------------ event bus ------------------------------ *)

\* calls is no field of ProxyEvent: it records, for the event a
\* trigger_event call returns, the calls of on_event that call made
Event(kind, pkt, target) ==
  [kind |-> kind, pkt |-> pkt, target |-> target, cancel |-> FALSE,
   calls |-> << >>]

\* the variants of ProxyEvent that carry a cancel: AtomicBool
Cancellable(kind) ==
  kind \in {"send_server", "send_client", "connecting_server",
            "connecting_ip", "status"}

\* the variants whose payload (packet / status string) a listener can rewrite
HasPacket(kind) ==
  kind \in {"recv_server", "recv_client", "send_server", "send_client",
            "status"}

\* What one listener can leave of event e (EventListener::on_event gets
\* &mut ProxyEvent): the packet as it was or rewritten, the target as it was
\* or replaced (by server B, by address "ip2"), the cancel flag stored or not.
on_event(e) ==
  {[e EXCEPT !.pkt = p, !.target = g, !.cancel = c] :
     p \in IF HasPacket(e.kind) THEN {e.pkt, [e.pkt EXCEPT !.b = 1]}
                                ELSE {e.pkt},
     g \in IF e.kind = "connecting_server" THEN {e.target, "B"}
           ELSE IF e.kind = "connecting_ip" THEN {e.target, "ip2"}
           ELSE {e.target},
     c \in IF Cancellable(e.kind) THEN {e.cancel, TRUE} ELSE {e.cancel}}

\* the event without the record of the calls
Bare(e) == [e EXCEPT !.calls = << >>]

\* let _ = event_listener.on_event(this.clone(), &mut event): listener l
\* gets event e (got), leaves it as on_event allows (left) and returns Ok
\* or Err; the result is dropped
Call(e, l) ==
  {[x EXCEPT !.calls =
       Append(e.calls, [listener |-> l, got |-> Bare(e), left |-> Bare(x),
                        result |-> r])] :
     x \in on_event(e), r \in {"Ok", "Err"}}

\* for event_listener in &mut event_listeners { on_event(.., &mut event) }
RECURSIVE RunListeners(_, _)
RunListeners(E, i) ==
  IF i > Len(event_listeners) THEN E
  ELSE RunListeners(UNION {Call(e, event_listeners[i]) : e \in E}, i + 1)

\* a faulty dispatch: the loop ends at the first listener that returns Err
RECURSIVE RunUntilErr(_, _)
RunUntilErr(E, i) ==
  IF i > Len(event_listeners) THEN E
  ELSE LET C == UNION {Call(e, event_listeners[i]) : e \in E}
           bad == {x \in C : x.calls[Len(x.calls)].result = "Err"}
       IN bad \cup RunUntilErr(C \ bad, i + 1)

StopAtErr(e) == RunUntilErr({e}, 1)

\* a faulty dispatch: every listener gets a copy of the event as dispatched,
\* the caller gets what the last listener left of its copy
RECURSIVE RunOnCopies(_, _, _)
RunOnCopies(e, E, i) ==
  IF i > Len(event_listeners) THEN E
  ELSE RunOnCopies(
         e,
         UNION {Call([e EXCEPT !.calls = x.calls], event_listeners[i]) :
                  x \in E},
         i + 1)

DispatchCopies(e) == RunOnCopies(e, {e}, 1)

\* MeexProx::trigger_event: the events the listeners can return for e
trigger_event(e) == RunListeners({e}, 1)

\* what a call that returned e leaves in lastev
Record(e) == IF lastev.kind = "off" THEN lastev ELSE e

\* A thread can take the proxy mutex (this.lock().unwrap() in
\* trigger_event, held until the last listener has returned; also in
\* remove_player and in the swap API before thread::spawn): no thread is
\* stuck holding it.
ProxyFree == mlock = NoThread

\* the same for the session mutex (this.lock().unwrap() on the PlayerMutex)
SessionFree == plock = NoThread

\* count the dispatch of a player event
Emit(em, kind) == [em EXCEPT ![kind] = @ + 1]

(* --------------------------- accept_client ----------------------------- *)

Handshake(ns) == Pkt(0, "handshake", ns, 0)

\* a faulty branch: everything that is no status request is a login
BranchElseLogin(ns) == IF ns = 1 THEN "status" ELSE "login"

\* if next_state == 1 { .. } else if next_state == 2 { .. }
Branch(ns) ==
  IF ns = 1 THEN "status" ELSE IF ns = 2 THEN "login" ELSE "close"

\* accept_client up to the branch on next_state: read the handshake,
\* resolve the server, connect, write the handshake upstream; for
\* next_state 2 build the ProxyPlayer around clones of both connections.
\* The inputs: how the read of the first frame ends (rds), the handshake's
\* next_state (nss) and server address (hosts), whether connect() and the
\* write succeed (ios).
AcceptHandshake(rds, nss, hosts, ios) ==
  /\ pc[ACC] = "accept"
  /\ \E rd \in rds, ns \in nss, host \in hosts, cok \in ios, wok \in ios :
       LET srv == ResolveServer(host)
           up == [sock EXCEPT ![1] = "open"]
       IN
       CASE rd = "err" ->
              /\ pc' = [pc EXCEPT ![ACC] = "failed"]
              /\ error' = "ProtocolError"
              /\ sock' = DropAll(sock)
              /\ UNCHANGED <<player, peer, sent, nup, lconn>>
         [] rd = "badid" ->
              /\ pc' = [pc EXCEPT ![ACC] = "closed"]
              /\ sock' = DropAll(sock)
              /\ UNCHANGED <<player, peer, sent, nup, lconn, error>>
         [] rd = "ok" /\ srv = None ->
              /\ pc' = [pc EXCEPT ![ACC] = "failed"]
              /\ error' = "ConfigParse"
              /\ sock' = DropAll(sock)
              /\ peer' = [peer EXCEPT ![ClientSock] = host]
              /\ UNCHANGED <<player, sent, nup, lconn>>
         [] rd = "ok" /\ srv # None /\ ~cok ->
              /\ pc' = [pc EXCEPT ![ACC] = "failed"]
              /\ error' = "io"
              /\ sock' = DropAll(sock)
              /\ peer' = [peer EXCEPT ![ClientSock] = host]
              /\ UNCHANGED <<player, sent, nup, lconn>>
         [] rd = "ok" /\ srv # None /\ cok /\ ~wok ->
              /\ pc' = [pc EXCEPT ![ACC] = "failed"]
              /\ error' = "io"
              /\ sock' = DropAll(up)
              /\ peer' = [peer EXCEPT ![ClientSock] = host, ![1] = Unwrap(srv)]
              /\ nup' = 1
              /\ UNCHANGED <<player, sent, lconn>>
         [] OTHER ->
              /\ peer' = [peer EXCEPT ![ClientSock] = host, ![1] = Unwrap(srv)]
              /\ nup' = 1
              /\ sent' = [sent EXCEPT ![1] = Append(@, Handshake(ns))]
              /\ lconn' = [lconn EXCEPT ![ACC] = 1]
              /\ error' = error
              /\ CASE Branch(ns) = "status" ->
                        /\ pc' = [pc EXCEPT ![ACC] = "status"]
                        /\ sock' = up
                        /\ player' = player
                   [] Branch(ns) = "login" ->
                        /\ pc' = [pc EXCEPT ![ACC] = "ev_connecting"]
                        /\ sock' = up
                        /\ player' = [NoPlayer EXCEPT !.exists = TRUE,
                                        !.server_conn = 1, !.server = srv]
                   [] OTHER ->
                        /\ pc' = [pc EXCEPT ![ACC] = "closed"]
                        /\ sock' = DropAll(up)
                        /\ player' = player
  /\ UNCHANGED <<stop, swaplog, mlock, plock, cfg, players, comp, rlog, nread, nswaps,
                 emitted, removed, inserted>>
  /\ UNCHANGED <<event_listeners, lastev, ret, disp>>

\* a faulty status_request(): the cancel flag is not looked at
CancelIgnored(e) == FALSE

\* ProxyEvent::status_request: (status, cancel.load(Ordering::Relaxed))
StatusCancel(e) == e.cancel

\* the upstream's status reply Q, its string as the upstream sent it
StatusQ == Pkt(0, "status", 0, 0)

\* a faulty rebuild: the upstream's reply goes to the client as it came
ReplyUpstream(e) == StatusQ

\* Packet::build(0x00, |p| p.write_string(&status)): a 0x00 packet around
\* the string the listeners left
StatusReply(e) == [e.pkt EXCEPT !.id = 0]

\* One round of the status loop: read a client frame, write it upstream,
\* read the upstream's frame; for a 0x00 request dispatch StatusRequestEvent
\* (break on cancel, else rebuild the 0x00 packet around the listeners'
\* string); write the frame to the client.
StatusRound ==
  /\ pc[ACC] = "status"
  /\ \E out \in {"eof", "ping", "request"}, wok \in BOOLEAN :
       CASE out = "eof" ->
              /\ pc' = [pc EXCEPT ![ACC] = "failed"]
              /\ error' = "io"
              /\ sock' = DropAll(sock)
              /\ UNCHANGED <<sent, nread, emitted, rlog, lastev>>
         [] out = "ping" ->
              \* client_packet.id() != 0x00: the reply goes to the client as is
              /\ nread[ACC] < MaxStatus
              /\ sent' = Write(Write(sent, 1, Pkt(1, "ping", 0, 0)),
                               ClientSock, Pkt(1, "pong", 0, 0))
              /\ nread' = [nread EXCEPT ![ACC] = @ + 1]
              /\ UNCHANGED <<pc, sock, error, emitted, rlog, lastev>>
         [] OTHER ->
            \E e \in trigger_event(Event("status", StatusQ, "none")) :
              /\ nread[ACC] < MaxStatus
              /\ ProxyFree
              /\ lastev' = Record(e)
              /\ nread' = [nread EXCEPT ![ACC] = @ + 1]
              /\ emitted' = IF e.cancel
                            THEN Emit(Emit(emitted, "status"),
                                      "status_cancelled")
                            ELSE Emit(emitted, "status")
              /\ IF StatusCancel(e)
                 THEN /\ pc' = [pc EXCEPT ![ACC] = "closed"]
                      /\ rlog' = rlog
                      /\ sock' = DropAll(sock)
                      /\ sent' = Write(sent, 1, Pkt(0, "status_request", 0, 0))
                      /\ error' = error
                 ELSE IF wok
                 THEN /\ sent' = Write(Write(sent, 1,
                                             Pkt(0, "status_request", 0, 0)),
                                       ClientSock, StatusReply(e))
                      /\ rlog' = [rlog EXCEPT ![ACC] = Append(@, e.pkt)]
                      /\ UNCHANGED <<pc, sock, error>>
                 ELSE /\ pc' = [pc EXCEPT ![ACC] = "failed"]
                      /\ rlog' = [rlog EXCEPT ![ACC] = Append(@, e.pkt)]
                      /\ error' = "io"
                      /\ sock' = DropAll(sock)
                      /\ sent' = Write(sent, 1, Pkt(0, "status_request", 0, 0))
  /\ UNCHANGED <<stop, swaplog, mlock, plock, cfg, player, players, comp, peer,
                 lconn, nswaps, nup, removed, inserted>>
  /\ UNCHANGED <<event_listeners, ret, disp>>

\* a faulty login: the cancel flag of the connecting event is not looked at
LoginCancelIgnored(e) == FALSE

\* if cancel { return Ok(()); } after player_connecting_server
LoginCancel(e) == e.cancel

\* ProxyEvent::player_connecting_server in accept_client: return on cancel,
\* else store the listeners' server in the player and push the player.
ConnectingEvent ==
  /\ pc[ACC] = "ev_connecting"
  /\ ProxyFree /\ SessionFree
  /\ \E e \in trigger_event(
                Event("connecting_server", NoPkt, Unwrap(player.server))) :
       /\ emitted' = Emit(emitted, "connecting_server")
       /\ lastev' = Record(e)
       /\ IF LoginCancel(e)
          THEN \* the only Arc of the player is dropped with its connections
               /\ pc' = [pc EXCEPT ![ACC] = "closed"]
               /\ sock' = DropAll(sock)
               /\ UNCHANGED <<player, players, inserted>>
          ELSE /\ pc' = [pc EXCEPT ![ACC] = "login_start"]
               /\ player' = [player EXCEPT !.server = Some(e.target)]
               /\ players' = Append(players, P1)
               /\ inserted' = inserted + 1
               /\ sock' = sock
  /\ UNCHANGED <<stop, swaplog, mlock, plock, cfg, comp, peer, sent, lconn, rlog, nread,
                 nswaps, nup, removed, error>>
  /\ UNCHANGED <<event_listeners, ret, disp>>

LoginStartPkt == Pkt(0, "login_start", 0, 0)

\* how reading and forwarding LoginStart / the encryption response can end
ExchangeOutcomes == {"eof", "nofirst", "nosecond", "wfail", "ok"}

\* ... and the first frame of the login may have another id than 0x00 with
\* a payload that reads as a string and a uuid
LoginStartOutcomes == ExchangeOutcomes \cup {"otherid"}

\* a frame with id 0x05 where LoginStart is due
NotLoginStart == Pkt(5, "not_login_start", 0, 0)

\* read LoginStart from the client, store name and uuid, forward it
\* upstream; the id of the frame is not looked at
LoginStart(outs) ==
  /\ pc[ACC] = "login_start"
  /\ SessionFree
  /\ \E out \in outs :
       CASE out = "eof" ->
              /\ pc' = [pc EXCEPT ![ACC] = "failed"]
              /\ sock' = Fail(sock, ClientSock)
              /\ error' = "io"
              /\ UNCHANGED <<player, sent>>
         [] out = "nofirst" ->
              /\ pc' = [pc EXCEPT ![ACC] = "failed"]
              /\ error' = "ProtocolError"
              /\ UNCHANGED <<player, sent, sock>>
         [] out = "nosecond" ->
              /\ pc' = [pc EXCEPT ![ACC] = "failed"]
              /\ player' = [player EXCEPT !.name = Some("n")]
              /\ error' = "ProtocolError"
              /\ UNCHANGED <<sent, sock>>
         [] out = "wfail" ->
              /\ pc' = [pc EXCEPT ![ACC] = "failed"]
              /\ player' = [player EXCEPT !.name = Some("n"),
                                          !.uuid = Some("u")]
              /\ sock' = Fail(sock, 1)
              /\ error' = "io"
              /\ sent' = sent
         [] OTHER ->
              /\ pc' = [pc EXCEPT ![ACC] = "login_loop"]
              /\ player' = [player EXCEPT !.name = Some("n"),
                                          !.uuid = Some("u")]
              /\ sent' = Write(sent, 1, IF out = "otherid" THEN NotLoginStart
                                         ELSE LoginStartPkt)
              /\ UNCHANGED <<sock, error>>
  /\ UNCHANGED <<stop, swaplog, mlock, plock, cfg, players, comp, peer, lconn, rlog, nread,
                 nswaps, nup, emitted, removed, inserted>>
  /\ UNCHANGED <<event_listeners, lastev, ret, disp>>

(* ----------------------------- compression ----------------------------- *)

\* rust_mc_proto's Zigzag for isize: the zigzag encoding to usize
zigzag(n) == IF n >= 0 THEN 2 * n ELSE -2 * n - 1

\* if threshold >= 0 { Some(threshold.zigzag()) } else { None }
Threshold(raw) == IF raw >= 0 THEN Some(zigzag(raw)) ELSE None

\* a faulty login: the threshold is set on the upstream codec only
SetUpstreamOnly(cm, up, raw) == [cm EXCEPT ![up] = Threshold(raw)]

\* server_conn.set_compression(x); client_conn.set_compression(x)
SetCompression(cm, up, raw) ==
  [cm EXCEPT ![up] = Threshold(raw), ![ClientSock] = Threshold(raw)]

(* ------------------------- accept_client: login ------------------------ *)

LoginPkt(id, raw) ==
  CASE id = 1 -> Pkt(1, "encryption_request", 0, 0)
    [] id = 2 -> Pkt(2, "login_success", 0, 0)
    [] id = 3 -> Pkt(3, "set_compression", raw, 0)
    [] OTHER -> Pkt(id, "login_other", 0, 0)

\* the ids of the upstream's login packets: EncryptionRequest, LoginSuccess,
\* SetCompression, and one id the proxy does not look at
LoginIds == 1..4

\* how one round of the login loop can end
LoginOutcomes == {"eof", "cfail", "malformed", "pkt"}

\* One round of `while let Ok(packet) = server_conn.read_packet()`: mirror
\* the frame to the client, then look at its id.  A read error ends the
\* loop like LoginSuccess does.  max bounds the packets before LoginSuccess.
LoginLoop(outs, ids, raws, max) ==
  /\ pc[ACC] = "login_loop"
  /\ \E out \in outs, id \in ids, raw \in raws :
       CASE out = "eof" ->
              /\ pc' = [pc EXCEPT ![ACC] = "ev_connected"]
              /\ sock' = Fail(sock, 1)
              /\ UNCHANGED <<sent, comp, nread, error>>
         [] out = "cfail" ->
              /\ pc' = [pc EXCEPT ![ACC] = "failed"]
              /\ sock' = Fail(sock, ClientSock)
              /\ error' = "io"
              /\ UNCHANGED <<sent, comp, nread>>
         [] out = "malformed" ->
              \* a 0x03 whose payload is no varint: read_isize_varint()?
              /\ nread[ACC] < max
              /\ pc' = [pc EXCEPT ![ACC] = "failed"]
              /\ sent' = Write(sent, ClientSock, Pkt(3, "malformed", 0, 0))
              /\ error' = "ProtocolError"
              /\ UNCHANGED <<sock, comp, nread>>
         [] OTHER ->
              /\ id = 2 \/ nread[ACC] < max
              /\ id = 3 \/ raw = CHOOSE r \in raws : TRUE
              /\ sent' = Write(sent, ClientSock, LoginPkt(id, raw))
              /\ nread' = [nread EXCEPT ![ACC] = @ + 1]
              /\ comp' = IF id = 3 THEN SetCompression(comp, 1, raw) ELSE comp
              /\ pc' = [pc EXCEPT ![ACC] =
                          IF id = 1 THEN "login_enc"
                          ELSE IF id = 2 THEN "ev_connected"
                          ELSE "login_loop"]
              /\ UNCHANGED <<sock, error>>
  /\ UNCHANGED <<stop, swaplog, mlock, plock, cfg, player, players, peer, lconn, rlog,
                 nswaps, nup, emitted, removed, inserted>>
  /\ UNCHANGED <<event_listeners, lastev, ret, disp>>

\* the shared secrets and verify tokens of the model: byte strings of up to
\* MaxBytes bytes
Secrets == UNION {[1..n -> ByteVals] : n \in 0..MaxBytes}

\* the payload of the client's encryption response:
\* varint(len) || shared_secret || varint(len) || verify_token
EncPayload(ss, vt) == <<Len(ss)>> \o ss \o <<Len(vt)>> \o vt

\* the encryption response with payload p (the field n holds the payload)
EncResponse(p) == [Pkt(1, "encryption_response", 0, 0) EXCEPT !.n = p]

\* read_usize_varint()?; read_bytes(len)? twice, on the payload p
ParseEnc(p) ==
  LET l1 == p[1]
      l2 == p[2 + l1]
  IN [shared_secret |-> SubSeq(p, 2, 1 + l1),
      verify_token |-> SubSeq(p, 3 + l1, 2 + l1 + l2)]

\* after an EncryptionRequest: read the client's response, store the shared
\* secret and the verify token on the player, forward the response upstream.
\* secrets are the values the client may send.
LoginEnc(outs, secrets) ==
  /\ pc[ACC] = "login_enc"
  /\ SessionFree
  /\ \E out \in outs, ss \in secrets, vt \in secrets :
       LET enc_response == EncResponse(EncPayload(ss, vt))
           got == ParseEnc(enc_response.n)
       IN
       CASE out = "eof" ->
              /\ pc' = [pc EXCEPT ![ACC] = "failed"]
              /\ sock' = Fail(sock, ClientSock)
              /\ error' = "io"
              /\ UNCHANGED <<player, sent>>
         [] out = "nofirst" ->
              /\ pc' = [pc EXCEPT ![ACC] = "failed"]
              /\ error' = "ProtocolError"
              /\ UNCHANGED <<player, sent, sock>>
         [] out = "nosecond" ->
              /\ pc' = [pc EXCEPT ![ACC] = "failed"]
              /\ player' = [player EXCEPT
                              !.shared_secret = Some(got.shared_secret)]
              /\ error' = "ProtocolError"
              /\ UNCHANGED <<sent, sock>>
         [] out = "wfail" ->
              /\ pc' = [pc EXCEPT ![ACC] = "failed"]
              /\ player' = [player EXCEPT
                              !.shared_secret = Some(got.shared_secret),
                              !.verify_token = Some(got.verify_token)]
              /\ sock' = Fail(sock, 1)
              /\ error' = "io"
              /\ sent' = sent
         [] OTHER ->
              /\ pc' = [pc EXCEPT ![ACC] = "login_loop"]
              /\ player' = [player EXCEPT
                              !.shared_secret = Some(got.shared_secret),
                              !.verify_token = Some(got.verify_token)]
              /\ sent' = Write(sent, 1, enc_response)
              /\ UNCHANGED <<sock, error>>
  /\ UNCHANGED <<stop, swaplog, mlock, plock, cfg, players, comp, peer, lconn, rlog, nread,
                 nswaps, nup, emitted, removed, inserted>>
  /\ UNCHANGED <<event_listeners, lastev, ret, disp>>

\* ProxyEvent::player_connected in accept_client
ConnectedEvent ==
  /\ pc[ACC] = "ev_connected"
  /\ ProxyFree
  /\ emitted' = Emit(emitted, "connected")
  /\ pc' = [pc EXCEPT ![ACC] = "connect"]
  /\ UNCHANGED <<stop, swaplog, mlock, plock, cfg, player, players, sock, comp, peer, sent,
                 lconn, rlog, nread, nswaps, nup, removed, inserted, error>>
  /\ UNCHANGED <<event_listeners, lastev, ret, disp>>

\* ProxyPlayer::connect(logged = true): clone both connections of the
\* player, tokio::spawn the two forwarding tasks on the clones, store their
\* abort handles in connection_threads.
ConnectLogged ==
  /\ pc[ACC] = "connect"
  /\ SessionFree
  /\ IF player.name = None
     THEN /\ pc' = [pc EXCEPT ![ACC] = "done"]
          /\ UNCHANGED <<lconn, player>>
     ELSE /\ pc' = [pc EXCEPT ![ACC] = "done", ![C2S] = "spawned",
                               ![S2C] = "spawned"]
          /\ lconn' = [lconn EXCEPT ![C2S] = player.server_conn,
                                    ![S2C] = player.server_conn]
          /\ player' = [player EXCEPT !.connection_threads = LoopThreads]
  /\ UNCHANGED <<stop, swaplog, mlock, plock, cfg, players, sock, comp, peer, sent, rlog,
                 nread, nswaps, nup, emitted, removed, inserted, error>>
  /\ UNCHANGED <<event_listeners, lastev, ret, disp>>

(* --------------------------- forwarding tasks -------------------------- *)

\* the socket a forwarding task reads from and the one it writes to
Src(t) == IF t = C2S THEN ClientSock ELSE lconn[t]
Dst(t) == IF t = C2S THEN lconn[t] ELSE ClientSock

PlayPkt(t, n) == Pkt(9, IF t = C2S THEN "c2s" ELSE "s2c", n, 0)

RecvKind(t) == IF t = C2S THEN "recv_client" ELSE "recv_server"
SendKind(t) == IF t = C2S THEN "send_server" ELSE "send_client"

\* the peers have another packet to send
PacketsLeft == nread[C2S] + nread[S2C] < MaxPackets

\* the runtime polls a spawned task for the first time
TaskStart(t) ==
  /\ pc[t] = "spawned"
  /\ pc' = [pc EXCEPT ![t] = "run"]
  /\ UNCHANGED <<stop, mlock, plock, cfg, player, players, sock, comp, peer, sent,
                 lconn, rlog, nread, nswaps, nup, emitted, removed, inserted,
                 error, swaplog>>
  /\ UNCHANGED <<event_listeners, lastev, ret, disp>>

\* a faulty send_*_packet: the cancel flag the listeners stored is lost
CancelLost(e) == FALSE

\* ProxyEvent::send_server_packet / send_client_packet:
\* (packet, cancel.load(Ordering::Relaxed))
SendCancel(e) == e.cancel

\* One round of a forwarding loop:
\*   while let Ok(packet) = <source>.read_packet() {
\*     recv event; send event; if !cancel { write or break } }
FwdStep(t) ==
  /\ pc[t] = "run"
  /\ \E rok \in BOOLEAN, wok \in BOOLEAN :
       IF ~rok
       THEN /\ sock' = Fail(sock, Src(t))
            /\ pc' = [pc EXCEPT ![t] = "exit"]
            /\ stop' = [stop EXCEPT ![t] = FailCause(Src(t))]
            /\ UNCHANGED <<nread, rlog, sent, lastev>>
       ELSE
         \* the send event is built around the packet the recv event left
         \E p1 \in {e1.pkt : e1 \in trigger_event(
                       Event(RecvKind(t), PlayPkt(t, nread[t] + 1), "none"))} :
         \E e2 \in trigger_event(Event(SendKind(t), p1, "none")) :
            /\ CanIo(Src(t))
            /\ PacketsLeft
            /\ ProxyFree
            /\ lastev' = Record(e2)
            /\ nread' = [nread EXCEPT ![t] = @ + 1]
            /\ IF SendCancel(e2)
               THEN UNCHANGED <<pc, rlog, sent, sock, stop>>
               ELSE /\ rlog' = [rlog EXCEPT ![t] = Append(@, e2.pkt)]
                    /\ IF wok /\ CanIo(Dst(t))
                       THEN /\ sent' = Write(sent, Dst(t), e2.pkt)
                            /\ UNCHANGED <<pc, sock, stop>>
                       ELSE /\ sock' = Fail(sock, Dst(t))
                            /\ pc' = [pc EXCEPT ![t] = "exit"]
                            /\ stop' = [stop EXCEPT ![t] = FailCause(Dst(t))]
                            /\ sent' = sent
  /\ UNCHANGED <<mlock, plock, cfg, player, players, comp, peer, lconn,
                 nswaps, nup, emitted, removed, inserted, error, swaplog>>
  /\ UNCHANGED <<event_listeners, ret, disp>>

\* Arc::ptr_eq(a, b): the two Arcs point to the same session
ptr_eq(a, b) == a.ptr = b.ptr

\* players.iter().position(|x| Arc::ptr_eq(x, &player))
Position(seq, x) ==
  IF \E i \in 1..Len(seq) : ptr_eq(seq[i], x)
  THEN Some(CHOOSE i \in 1..Len(seq) :
              ptr_eq(seq[i], x) /\ \A j \in 1..(i - 1) : ~ptr_eq(seq[j], x))
  ELSE None

\* a faulty Vec::remove: the first element is removed
RemoveFirst(seq, i) == Tail(seq)

\* Vec::remove(i)
RemoveAt(seq, i) ==
  [j \in 1..(Len(seq) - 1) |-> IF j < i THEN seq[j] ELSE seq[j + 1]]

\* MeexProx::remove_player: the players left and the bool returned
remove_player(seq, x) ==
  IF IsSome(Position(seq, x))
  THEN [players |-> RemoveAt(seq, Unwrap(Position(seq, x))), found |-> TRUE]
  ELSE [players |-> seq, found |-> FALSE]

\* after the loop: if meexprox.lock().unwrap().remove_player(this) { .. }
LoopExit(t) ==
  /\ pc[t] = "exit"
  /\ ProxyFree
  /\ LET r == remove_player(players, P1) IN
       /\ players' = r.players
       /\ removed' = IF r.found THEN removed + 1 ELSE removed
       /\ pc' = [pc EXCEPT ![t] = IF r.found THEN "ev_disc" ELSE "done"]
  /\ UNCHANGED <<stop, mlock, plock, cfg, player, sock, comp, peer, sent, lconn,
                 rlog, nread, nswaps, nup, emitted, inserted, error, swaplog>>
  /\ UNCHANGED <<event_listeners, lastev, ret, disp>>

\* ProxyEvent::player_disconnected, then the task's body ends
DisconnectedEvent(t) ==
  /\ pc[t] = "ev_disc"
  /\ ProxyFree
  /\ emitted' = Emit(emitted, "disconnected")
  /\ pc' = [pc EXCEPT ![t] = "done"]
  /\ UNCHANGED <<stop, mlock, plock, cfg, player, players, sock, comp, peer, sent,
                 lconn, rlog, nread, nswaps, nup, removed, inserted, error,
                 swaplog>>
  /\ UNCHANGED <<event_listeners, lastev, ret, disp>>

(* ------------------------------ server swap ---------------------------- *)

\* AbortHandle::abort(): a task not polled yet is cancelled; a task whose
\* body is running has no .await at which it could stop.
Abort(p, handles) ==
  [t \in Threads |->
     IF t \in handles /\ p[t] = "spawned" THEN "cancelled" ELSE p[t]]

\* the connect thread the next thread::spawn of a swap starts
NextCon == CON(Cardinality({t \in ConThreads : pc[t] # "unspawned"}) + 1)

\* a faulty swap: the session is rebuilt around the new connection by
\* ProxyPlayer::new, which has no name and no uuid
SwapConnFresh(t, host, srv, cok) ==
  /\ SessionFree
  /\ nup' = IF cok THEN nup + 1 ELSE nup
  /\ sock' = IF cok
             THEN [Close(sock, player.server_conn) EXCEPT ![nup + 1] = "open"]
             ELSE Close(sock, player.server_conn)
  /\ peer' = IF cok THEN [peer EXCEPT ![nup + 1] = host] ELSE peer
  /\ player' = [NoPlayer EXCEPT
                  !.exists = TRUE,
                  !.connection_threads = player.connection_threads,
                  !.server = srv,
                  !.server_conn = IF cok THEN nup + 1
                                  ELSE player.server_conn]

\* The part the three swap operations share, run by thread t:
\*   for thread in connection_threads { thread.abort() }
\*   server_conn.close(); [server = Some(server)]
\*   server_conn = MinecraftConnection::connect(host)?
\* cok says whether connect() succeeds, srv is the new value of the
\* player's server field.
SwapConn(t, host, srv, cok) ==
  /\ SessionFree
  /\ nup' = IF cok THEN nup + 1 ELSE nup
  /\ sock' = IF cok
             THEN [Close(sock, player.server_conn) EXCEPT ![nup + 1] = "open"]
             ELSE Close(sock, player.server_conn)
  /\ peer' = IF cok THEN [peer EXCEPT ![nup + 1] = host] ELSE peer
  /\ player' = [player EXCEPT
                  !.server = srv,
                  !.server_conn = IF cok THEN nup + 1 ELSE @]

\* ... followed, for a caller that does not hold the proxy mutex, by
\*   thread::spawn({ meexprox.lock().unwrap()...; move || connect(..) })
SwapSpawn(cok) ==
  /\ ProxyFree
  /\ pc' = IF cok
           THEN [Abort(pc, player.connection_threads)
                   EXCEPT ![NextCon] = "c_start"]
           ELSE Abort(pc, player.connection_threads)

\* The session is in its forwarding phase: accept_client has returned from
\* ProxyPlayer::connect, which stored the handles of the two tasks.
Forwarding == player.connection_threads # {}

\* what the swap API is called with by the embedding program
SwapTarget == [server |-> "A", ip |-> "ip"]

\* The embedding program calls ProxyPlayer::reconnect from a thread of its
\* own, for a session in its forwarding phase.
Reconnect ==
  /\ pc[SW] = "idle"
  /\ Forwarding
  /\ nswaps < MaxSwaps
  /\ nswaps' = nswaps + 1
  /\ \E cok \in BOOLEAN :
       /\ SwapConn(SW, Unwrap(player.server), player.server, cok)
       /\ SwapSpawn(cok)
       /\ swaplog' = Append(swaplog,
                       [kind |-> "reconnect", by |-> SW,
                        target |-> Unwrap(player.server),
                        result |-> IF cok THEN "spawned" ELSE "err"])
  /\ UNCHANGED <<stop, mlock, plock, cfg, players, comp, sent, lconn, rlog, nread,
                 emitted, removed, inserted, error>>
  /\ UNCHANGED <<event_listeners, lastev, ret, disp>>

\* a faulty swap: the cancel flag of the connecting event is not looked at
CancelUnread(e) == FALSE

\* if cancel { return Ok(()); } in connect_to_server and connect_to_ip
SwapCancel(e) == e.cancel

\* ... calls ProxyPlayer::connect_to_server: PlayerConnectingServerEvent
\* first (return Ok on cancel), then the swap to the listeners' server
ConnectToServer ==
  /\ pc[SW] = "idle"
  /\ Forwarding
  /\ nswaps < MaxSwaps
  /\ ProxyFree
  /\ nswaps' = nswaps + 1
  /\ emitted' = Emit(emitted, "connecting_server")
  /\ \E cok \in BOOLEAN,
        e \in trigger_event(
                Event("connecting_server", NoPkt, SwapTarget.server)) :
       /\ lastev' = Record(e)
       /\ swaplog' = Append(swaplog,
                       [kind |-> "server", by |-> SW, target |-> e.target,
                        result |-> IF e.cancel THEN "cancelled"
                                   ELSE IF cok THEN "spawned" ELSE "err"])
       /\ IF SwapCancel(e)
          THEN UNCHANGED <<pc, player, sock, peer, nup>>
          ELSE /\ SwapConn(SW, e.target, Some(e.target), cok)
               /\ SwapSpawn(cok)
  /\ UNCHANGED <<stop, mlock, plock, cfg, players, comp, sent, lconn, rlog, nread,
                 removed, inserted, error>>
  /\ UNCHANGED <<event_listeners, ret, disp>>

\* ... calls ProxyPlayer::connect_to_ip: PlayerConnectingIPEvent first
\* (return Ok on cancel), then the swap to the listeners' address; the
\* player's server field is not written
ConnectToIp ==
  /\ pc[SW] = "idle"
  /\ Forwarding
  /\ nswaps < MaxSwaps
  /\ ProxyFree
  /\ nswaps' = nswaps + 1
  /\ emitted' = Emit(emitted, "connecting_ip")
  /\ \E cok \in BOOLEAN,
        e \in trigger_event(Event("connecting_ip", NoPkt, SwapTarget.ip)) :
       /\ lastev' = Record(e)
       /\ swaplog' = Append(swaplog,
                       [kind |-> "ip", by |-> SW, target |-> e.target,
                        result |-> IF e.cancel THEN "cancelled"
                                   ELSE IF cok THEN "spawned" ELSE "err"])
       /\ IF SwapCancel(e)
          THEN UNCHANGED <<pc, player, sock, peer, nup>>
          ELSE /\ SwapConn(SW, e.target, player.server, cok)
               /\ SwapSpawn(cok)
  /\ UNCHANGED <<stop, mlock, plock, cfg, players, comp, sent, lconn, rlog, nread,
                 removed, inserted, error>>
  /\ UNCHANGED <<event_listeners, ret, disp>>

\* The listener of main.rs: on a RecvClientPacketEvent (chat "reconnect")
\* it calls ProxyPlayer::reconnect(..).unwrap() on the thread of the
\* client-to-server task, inside trigger_event.  An Err of connect() is
\* unwrapped (panic).  After a successful connect() reconnect locks the
\* proxy mutex for thread::spawn, which trigger_event holds on this very
\* thread: lock() never returns, the thread blocks for ever holding the
\* mutex or panics and drops it.
ListenerReconnect ==
  /\ pc[C2S] = "run"
  /\ CanIo(ClientSock)
  /\ PacketsLeft
  /\ ProxyFree
  /\ nswaps < MaxSwaps
  /\ nswaps' = nswaps + 1
  /\ nread' = [nread EXCEPT ![C2S] = @ + 1]
  /\ \E cok \in BOOLEAN, how \in {"deadlocked", "panicked"} :
       /\ SwapConn(C2S, Unwrap(player.server), player.server, cok)
       /\ cok \/ how = "panicked"
       /\ pc' = [Abort(pc, player.connection_threads) EXCEPT ![C2S] = how]
       /\ mlock' = IF how = "deadlocked" THEN C2S ELSE mlock
       /\ swaplog' = Append(swaplog,
                       [kind |-> "reconnect", by |-> C2S,
                        target |-> Unwrap(player.server),
                        result |-> IF cok THEN how ELSE "err"])
  /\ UNCHANGED <<stop, plock, cfg, players, comp, sent, lconn, rlog, emitted,
                 removed, inserted, error>>
  /\ UNCHANGED <<event_listeners, lastev, ret, disp>>

(* -------------------- ProxyPlayer::connect(logged = false) ------------- *)

\* a connect thread that gets through send_login and spawns two forwarding
\* tasks, whatever has become of the previous two
RespawnTasks(t) ==
  /\ pc[t] = "c_start"
  /\ pc' = [pc EXCEPT ![t] = "done", ![C2S] = "spawned", ![S2C] = "spawned"]
  /\ UNCHANGED <<mlock, plock, cfg, player, players, sock, comp, peer, sent,
                 lconn, rlog, nread, nswaps, nup, emitted, removed, inserted,
                 error, swaplog, stop>>
  /\ UNCHANGED <<event_listeners, lastev, ret, disp>>

\* The thread a swap spawned: clone the player's connections, return if the
\* player has no name, send_handshake (SendServerPacketEvent, then
\* this.lock().unwrap().server_conn.write_packet unless cancelled), then
\* send_login.  send_login's
\*   if let Some(player_name) = this.lock().unwrap().name.as_ref() {
\*     if let Some(player_uuid) = this.lock().unwrap().uuid.as_ref() {
\* keeps the guard of the session mutex for the body of the outer if let,
\* and the body starts with lock() on the same mutex: lock() never returns.
ConnectSwap(t) ==
  /\ pc[t] = "c_start"
  /\ SessionFree
  /\ lconn' = [lconn EXCEPT ![t] = player.server_conn]
  /\ IF player.name = None
     THEN /\ pc' = [pc EXCEPT ![t] = "done"]
          /\ UNCHANGED <<plock, sent, sock, lastev>>
     ELSE /\ ProxyFree
          /\ \E e \in trigger_event(Event("send_server", Handshake(2), "none")),
                wok \in BOOLEAN, how \in {"deadlocked", "panicked"} :
               /\ lastev' = Record(e)
               /\ IF e.cancel \/ (wok /\ CanIo(player.server_conn))
                  THEN /\ sent' = IF e.cancel THEN sent
                                  ELSE Write(sent, player.server_conn, e.pkt)
                       /\ pc' = [pc EXCEPT ![t] = how]
                       /\ plock' = IF how = "deadlocked" THEN t ELSE plock
                       /\ sock' = sock
                  ELSE /\ sock' = Fail(sock, player.server_conn)
                       /\ pc' = [pc EXCEPT ![t] = "failed"]
                       /\ UNCHANGED <<plock, sent>>
  /\ UNCHANGED <<stop, mlock, cfg, player, players, comp, peer, rlog, nread,
                 nswaps, nup, emitted, removed, inserted, error, swaplog>>
  /\ UNCHANGED <<event_listeners, ret, disp>>

(* ---------------------------- specification ---------------------------- *)

\* accept_client for one connection, with every input: from the first
\* frame to the return from ProxyPlayer::connect(logged = true)
NextLogin ==
  \/ AcceptHandshake({"err", "badid", "ok"}, NextStates, Hosts, BOOLEAN)
  \/ StatusRound
  \/ ConnectingEvent
  \/ LoginStart(LoginStartOutcomes)
  \/ LoginLoop(LoginOutcomes, LoginIds, RawThresholds, MaxLoginPkts)
  \/ LoginEnc(ExchangeOutcomes, {<<1>>, <<1, 2>>})
  \/ ConnectedEvent
  \/ ConnectLogged

SpecLogin == Init /\ [][NextLogin]_vars

\* The life of a session: a client that logs in at the default server, with
\* or without SetCompression on the way, then the two forwarding tasks and
\* the swaps.
Next ==
  \/ AcceptHandshake({"ok"}, {2}, {"other"}, {TRUE})
  \/ ConnectingEvent
  \/ LoginStart({"ok"})
  \/ LoginLoop({"pkt"}, {2, 3}, {1}, 1)
  \/ ConnectedEvent
  \/ ConnectLogged
  \/ Reconnect
  \/ ConnectToServer
  \/ ConnectToIp
  \/ ListenerReconnect
  \/ \E t \in LoopThreads :
       \/ TaskStart(t)
       \/ FwdStep(t)
       \/ LoopExit(t)
       \/ DisconnectedEvent(t)
  \/ \E t \in ConThreads : ConnectSwap(t)

Spec == Init /\ [][Next]_vars

(* ------------------------ the event bus, observed ---------------------- *)

\* MeexProx::add_event_listener, called by the embedding program before
\* start(): self.event_listeners.push(event_listener)
add_event_listener(l) ==
  /\ pc[ACC] = "accept"
  /\ Len(event_listeners) < MaxListeners
  /\ \A i \in 1..Len(event_listeners) : event_listeners[i] # l
  /\ event_listeners' = Append(event_listeners, l)
  /\ UNCHANGED <<pc, mlock, plock, cfg, player, players, sock, comp, peer,
                 sent, lconn, rlog, nread, nswaps, nup, emitted, removed,
                 inserted, error, swaplog, stop, lastev, ret, disp>>

\* MeexProx::new: no listener is registered; the calls of the listeners
\* are recorded
InitBus ==
  /\ InitProxy
  /\ event_listeners = << >>
  /\ lastev = [kind |-> "none"]
  /\ ret = [op |-> "none"]
  /\ disp = [t \in Threads |-> NoDispatch]

\* The embedding program registers its listeners, in any order; then a
\* client asks for the status or logs in, and the forwarding tasks run
\* until their loops end.
NextBus ==
  \/ \E l \in 1..MaxListeners : add_event_listener(l)
  \/ AcceptHandshake({"ok"}, {1, 2}, {"other"}, {TRUE})
  \/ StatusRound
  \/ ConnectingEvent
  \/ LoginStart({"ok"})
  \/ LoginLoop({"pkt"}, {2}, {1}, 1)
  \/ ConnectedEvent
  \/ ConnectLogged
  \/ \E t \in LoopThreads :
       \/ TaskStart(t)
       \/ FwdStep(t)
       \/ LoopExit(t)
       \/ DisconnectedEvent(t)

SpecBus == InitBus /\ [][NextBus]_vars


(* ------------------------------ properties ----------------------------- *)

\* a swap has spawned its connect thread and the thread has not run yet
SwapPending == \E t \in ConThreads : pc[t] = "c_start"

\* C1: in every state in which no swap is under way, the compression
\* threshold of the session's client codec equals the threshold of the codec
\* of its current upstream connection (both unset or both the same value).
C1_CompressionEqual ==
  (player.exists /\ ~SwapPending)
    => comp[ClientSock] = comp[player.server_conn]

\* the packet inside a frame
Unframe(f) == [f EXCEPT !.z = None]

\* the packets forwarding task t has written to its destination, in order
Written(t) ==
  LET W == SelectSeq(sent[Dst(t)],
                     LAMBDA f : f.tag = PlayPkt(t, 0).tag)
  IN [i \in 1..Len(W) |-> Unframe(W[i])]

IsPrefix(a, b) ==
  Len(a) <= Len(b) /\ \A i \in 1..Len(a) : a[i] = b[i]

\* C2 (as stated): in each direction the packets written are exactly the
\* packets read whose Send event was not cancelled, in their post-listener
\* form and in read order; nothing else is dropped, duplicated or reordered.
C2_AllForwarded == \A t \in LoopThreads : Written(t) = rlog[t]

\* C2 (amended): in each direction the packets written are a prefix of the
\* packets whose Send event completed without cancel (post-listener form,
\* read order); the prefix lacks at most the last of them, and only when
\* writing it failed, which has ended the loop.
C2_ForwardedPrefix ==
  \A t \in LoopThreads :
    /\ IsPrefix(Written(t), rlog[t])
    /\ Written(t) # rlog[t] =>
         /\ Len(rlog[t]) = Len(Written(t)) + 1
         /\ pc[t] # "run"
         /\ stop[t] # "none"

\* two packets passed the Send event in one direction, the first rewritten
\* by a listener and written, the second lost to a failed write
C2_Witness ==
  \E t \in LoopThreads :
    /\ Len(rlog[t]) = 2
    /\ Len(Written(t)) = 1
    /\ Written(t)[1].b = 1

\* the task's body has come to its end, or will never run
TaskOver(t) == pc[t] \in {"done", "cancelled", "panicked"}

\* the session has ended: accept_client has returned, no forwarding task
\* is left and no swap is under way
SessionOver ==
  /\ emitted["connected"] > 0
  /\ pc[ACC] = "done"
  /\ \A t \in LoopThreads : TaskOver(t)
  /\ ~SwapPending

\* C3: a session that emitted PlayerConnectedEvent never emits
\* PlayerDisconnectedEvent twice, and has emitted it once it has ended.
C3_DisconnectedOnce ==
  /\ emitted["disconnected"] <= 1
  /\ SessionOver => emitted["disconnected"] = 1

InPlayers(x) == \E i \in 1..Len(players) : players[i] = x

\* C4: a session is never removed from players twice, and it is not in
\* players any more once accept_client has returned an error for its
\* connection (the login failed after the insertion).
C4_RemovedOnce ==
  /\ removed <= 1
  /\ pc[ACC] = "failed" => ~InPlayers(P1)

\* the proxy has shut the socket down or dropped its last handle
ProxyClosed(sk, s) == sk[s] \in {"shut", "closed"}

\* C5: from the first swap request on, no step of the proxy closes the
\* client socket, and the only socket a step shuts down is the one that is
\* the session's upstream connection when a swap request is made.
C5_SwapKeepsClient ==
  [][nswaps' > 0 =>
       /\ ProxyClosed(sock', ClientSock) => ProxyClosed(sock, ClientSock)
       /\ \A s \in Socks :
            (sock'[s] = "shut" /\ sock[s] # "shut")
              => (s = player.server_conn /\ s # ClientSock
                  /\ nswaps' = nswaps + 1)]_vars

\* a swap has shut the first upstream down and opened the second; the
\* client socket is open
C5_Witness ==
  /\ nswaps > 0
  /\ nup = 2
  /\ sock[1] = "shut"
  /\ sock[2] = "open"
  /\ sock[ClientSock] = "open"

\* C6: a swap operation called by a listener, inside trigger_event on the
\* thread of a forwarding task, returns to the listener (with Ok or with the
\* Err of connect()); the calling thread is never stopped for good at a
\* lock() of the proxy mutex or the session mutex.
C6_ListenerSwapReturns ==
  \A i \in 1..Len(swaplog) :
    swaplog[i].by \in LoopThreads
      => swaplog[i].result \notin {"deadlocked", "panicked"}

\* C7: the connect thread of a swap that was not cancelled and whose
\* connect() succeeded is never stopped for good inside send_login, short of
\* the replayed login and of the start of the two new forwarding tasks.
C7_SwapCompletes ==
  \A t \in ConThreads : pc[t] \notin {"deadlocked", "panicked"}

\* the task exists and its body has not come to its end
Live(t) == pc[t] \in {"spawned", "run", "exit", "ev_disc", "deadlocked"}

C9_InSetIffLive ==
  InPlayers(P1) <=> \E t \in LoopThreads : Live(t)

\* C10: a forwarding loop that ended because a swap shut its upstream
\* socket down does not remove the session from players and does not
\* dispatch PlayerDisconnectedEvent.
C10_AbortedLoopKeepsSession ==
  \A t \in LoopThreads : pc[t] = "ev_disc" => stop[t] # "shut"

\* a swap request has aborted the tasks, shut the old upstream down, opened
\* the new one and spawned its connect thread.  No step starts new
\* forwarding tasks after that, so the swap stays in progress.
SwapInProgress ==
  \E i \in 1..Len(swaplog) : swaplog[i].result = "spawned"

\* C11: while a swap of the session is in progress, no forwarding task of
\* the session runs a forwarding step: none reads a frame from its source.
C11_NoForwardingInSwap ==
  [][SwapInProgress => \A t \in LoopThreads : nread'[t] = nread[t]]_vars


\* the next_state of the handshake accept_client wrote upstream, 0 before
HandshakeState == IF sent[1] = << >> THEN 0 ELSE sent[1][1].n

\* C12: after a handshake whose next_state is neither 1 nor 2 the login
\* driver has returned and dropped both connections; no session was created
\* or inserted and no player event was dispatched.
C12_OtherStateNoEffect ==
  HandshakeState \notin {0, 1, 2} =>
    /\ pc[ACC] = "closed"
    /\ \A s \in Socks : sock[s] # "open"
    /\ ~player.exists
    /\ players = << >>
    /\ inserted = 0
    /\ \A k \in PlayerEvents : emitted[k] = 0

\* the handshake with next_state 3 went upstream and the driver returned
C12_Witness ==
  /\ HandshakeState = 3
  /\ pc[ACC] = "closed"
  /\ sock[1] = "closed"

\* the SetCompression packets of the login mirrored to the client so far
SetCompressions ==
  SelectSeq(sent[ClientSock], LAMBDA f : f.tag = "set_compression")

\* C13: after a SetCompression of the login whose threshold varint was read
\* as the value d, both the client codec and the upstream codec have the
\* threshold d when d >= 0 (threshold 0 for d = 0), and none when d < 0.
C13_ThresholdAsDecoded ==
  SetCompressions # << >> =>
    LET d == SetCompressions[Len(SetCompressions)].n IN
      /\ comp[ClientSock] = (IF d >= 0 THEN Some(d) ELSE None)
      /\ comp[1] = (IF d >= 0 THEN Some(d) ELSE None)

\* the status replies (rebuilt 0x00 packets) written to the client so far
StatusReplies ==
  Len(SelectSeq(sent[ClientSock], LAMBDA f : f.tag = "status"))

\* C14: once a listener has cancelled a StatusRequestEvent, the reply for
\* that request is not written to the client (every earlier request has its
\* reply, this one has none), the driver has left the status loop and
\* returned, and the client socket and the upstream socket are closed.
C14_CancelledStatusCloses ==
  emitted["status_cancelled"] > 0 =>
    /\ emitted["status_cancelled"] = 1
    /\ StatusReplies = emitted["status"] - 1
    /\ pc[ACC] = "closed"
    /\ sock[ClientSock] = "closed"
    /\ sock[1] = "closed"

\* a status request went upstream, its event was cancelled
C14_Witness ==
  /\ emitted["status_cancelled"] = 1
  /\ HandshakeState = 1
  /\ Len(sent[1]) = 2
  /\ sent[ClientSock] = << >>

\* the status replies written to the client, in order
StatusWritten ==
  LET W == SelectSeq(sent[ClientSock], LAMBDA f : f.tag = "status")
  IN [i \in 1..Len(W) |-> Unframe(W[i])]

\* C15: in the Status state every frame written to the client answers the
\* client frame written upstream at the same position: to a 0x00 request
\* whose event was not cancelled, a 0x00 packet with the status string as
\* the last listener left it; to a frame of another id, the upstream's
\* reply unchanged.  A reply is missing only for the last request, when
\* writing it failed.
C15_StatusReplies ==
  HandshakeState = 1 =>
    /\ Len(sent[ClientSock]) < Len(sent[1])
    /\ \A i \in 1..Len(sent[ClientSock]) :
         LET f == sent[ClientSock][i]
             c == sent[1][i + 1]
         IN IF c.id = 0
            THEN f.id = 0 /\ f.tag = "status"
            ELSE Unframe(f) = Pkt(1, "pong", 0, 0)
    /\ IsPrefix(StatusWritten, rlog[ACC])
    /\ StatusWritten # rlog[ACC] =>
         /\ Len(rlog[ACC]) = Len(StatusWritten) + 1
         /\ pc[ACC] = "failed"

\* a status string rewritten by a listener has reached the client
C15_Witness ==
  /\ HandshakeState = 1
  /\ Len(StatusWritten) = 1
  /\ StatusWritten[1].b = 1
  /\ StatusWritten[1].id = 0

\* the server_address of the handshake accept_client has read, "none" before
ServerAddress == peer[ClientSock]

\* C16: the upstream of a new connection is the server whose forced host is
\* the handshake's server_address (B for "hostB") if there is one, else the
\* configured default server; with neither, the connection is refused: no
\* upstream connection is opened and no session is created.
C16_Resolution ==
  ServerAddress # "none" =>
    IF ServerAddress = "hostB"
    THEN nup > 0 => peer[1] = "B"
    ELSE IF IsSome(cfg.default_server)
    THEN nup > 0 => peer[1] = Unwrap(cfg.default_server)
    ELSE /\ pc[ACC] = "failed"
         /\ nup = 0
         /\ \A s \in UpSocks : sock[s] = "none"
         /\ ~player.exists
         /\ players = << >>

\* a default server is configured, and the handshake names the forced host
\* of another server: the upstream connection goes to that server
C16_Witness ==
  /\ ServerAddress = "hostB"
  /\ cfg.default_server = Some("A")
  /\ peer[1] = "B"
  /\ sock[1] = "open"

\* C17: a handshake whose server_address matches no forced host, with no
\* default server configured, makes accept_client return the error
\* ServerConnect.
C17_RefusedServerConnect ==
  (ServerAddress \notin {"none", "hostB"} /\ cfg.default_server = None)
    => error = "ServerConnect"

(* ------------------------------ event bus ------------------------------ *)

\* the calls of on_event made by the latest trigger_event call
Calls == lastev.calls

Dispatched ==
  \/ \E t \in LoopThreads \cup {ACC} : nread'[t] # nread[t]
  \/ emitted'["connecting_server"] # emitted["connecting_server"]

\* a listener returned Err in the latest trigger_event call
SomeErr(e) ==
  e.kind # "none" /\ \E k \in 1..Len(e.calls) : e.calls[k].result = "Err"

\* C19: when on_event of a listener returns Err, the listeners registered
\* after it are still called for the event, each gets the event as the
\* listener before it left it (what the failing one changed included) and
\* the caller gets what the last one left; the step tears nothing down: the
\* session stays in players and a forwarding loop leaves its loop in that
\* step only when its write failed.
C19_ListenerErrIgnored ==
  [][(Dispatched /\ SomeErr(lastev')) =>
       LET c == lastev'.calls
           n == Len(event_listeners) IN
       /\ Len(c) = n
       /\ \A k \in 1..n : c[k].listener = event_listeners[k]
       /\ \A k \in 2..n : c[k].got = c[k - 1].left
       /\ Bare(lastev') = c[n].left
       /\ \A i \in 1..Len(players) : \E j \in 1..Len(players') :
            players'[j] = players[i]
       /\ removed' = removed
       /\ \A t \in LoopThreads :
            pc[t] = "run" =>
              \/ pc'[t] = "run"
              \/ pc'[t] = "exit" /\ ~lastev'.cancel /\ sock'[Dst(t)] # "open"]_vars

\* the first of two listeners rewrote the packet of a SendClientPacketEvent
\* and returned Err; the second one got the rewritten packet, the packet
\* went to the client and both loops are running, the session in players
C19_Witness ==
  /\ lastev.kind = "send_client"
  /\ Len(Calls) = 2
  /\ Calls[1].result = "Err" /\ Calls[1].left.pkt.b = 1
  /\ Calls[2].got.pkt.b = 1 /\ Calls[2].result = "Ok"
  /\ ~lastev.cancel
  /\ Len(sent[ClientSock]) > 0
  /\ sent[ClientSock][Len(sent[ClientSock])].b = 1
  /\ pc[C2S] = "run" /\ pc[S2C] = "run"
  /\ players = <<P1>>

(* ---------------------------- cancelled swap --------------------------- *)

\* the step is a call of connect_to_server or connect_to_ip whose
\* connecting event a listener cancelled
CancelledSwap ==
  /\ Len(swaplog') = Len(swaplog) + 1
  /\ swaplog'[Len(swaplog')].result = "cancelled"

\* C20: a call of connect_to_server / connect_to_ip whose connecting event
\* was cancelled changes nothing of the session: the player's server and
\* upstream connection and its task handles are as before the call, the
\* tasks and connect threads are where they were, no socket is closed or
\* opened.
C20_CancelledSwapNoEffect ==
  [][CancelledSwap =>
       /\ swaplog'[Len(swaplog')].kind \in {"server", "ip"}
       /\ player' = player
       /\ sock' = sock
       /\ peer' = peer /\ comp' = comp /\ nup' = nup
       /\ players' = players
       /\ \A t \in LoopThreads \cup ConThreads : pc'[t] = pc[t]]_vars

\* connect_to_server was called for a session on server A with both tasks
\* running; the listener put server B into the event and cancelled it: the
\* session is on A, upstream 1 is open, the tasks run
C20_Witness ==
  /\ swaplog # << >>
  /\ swaplog[1].kind = "server"
  /\ swaplog[1].target = "B"
  /\ swaplog[1].result = "cancelled"
  /\ player.server = Some("A")
  /\ player.server_conn = 1
  /\ sock[1] = "open" /\ sock[ClientSock] = "open"
  /\ nup = 1
  /\ pc[C2S] = "run" /\ pc[S2C] = "run"
  /\ player.connection_threads = LoopThreads

(* ------------------------- swap entry points --------------------------- *)

\* the Connecting events dispatched so far
Connectings == emitted["connecting_server"] + emitted["connecting_ip"]

\* C21: every call of a swap entry point (reconnect, connect_to_server,
\* connect_to_ip) dispatches a Connecting event, and it does so before it
\* aborts a task or closes the upstream socket: the step of a swap call
\* counts one more Connecting event.
C21_ConnectingFirst ==
  [][nswaps' = nswaps + 1 => Connectings' = Connectings + 1]_vars

(* ------------------------- cancelled Send events ----------------------- *)

\* forwarding task t has read a packet in this step and the listeners
\* cancelled its Send event
SendCancelledBy(t) ==
  /\ nread'[t] = nread[t] + 1
  /\ lastev'.kind = SendKind(t)
  /\ lastev'.cancel

\* the loop of task t has ended
LoopEnded(t) == pc[t] \in {"exit", "ev_disc", "done"}

\* C22: a forwarding loop whose Send event was cancelled writes nothing for
\* that packet and stays in its loop: the step closes no socket, removes no
\* session and dispatches no PlayerDisconnectedEvent.  A loop ends, and
\* PlayerDisconnectedEvent is dispatched, only after a read or a write of
\* the loop has failed.
C22_CancelKeepsSession ==
  /\ [][\A t \in LoopThreads :
          SendCancelledBy(t) =>
            /\ pc' = pc
            /\ sent' = sent
            /\ sock' = sock
            /\ players' = players
            /\ removed' = removed
            /\ emitted' = emitted]_vars
  /\ [](\A t \in LoopThreads : LoopEnded(t) => stop[t] \in {"peer", "shut"})
  /\ [](emitted["disconnected"] > 0 =>
          \E t \in LoopThreads : stop[t] \in {"peer", "shut"})

\* the server-to-client task has read every packet there was, the Send
\* event of each of them was cancelled: nothing went to the client, both
\* tasks are in their loops and the session is in players
C22_Witness ==
  /\ nread[S2C] = MaxPackets
  /\ rlog[S2C] = << >>
  /\ lastev.kind = "send_client" /\ lastev.cancel
  /\ Written(S2C) = << >>
  /\ pc[S2C] = "run" /\ pc[C2S] = "run"
  /\ sock[ClientSock] = "open" /\ sock[1] = "open"
  /\ players = <<P1>>
  /\ emitted["disconnected"] = 0

(* --------------------------- session identity -------------------------- *)

\* C23: once the name of a session is set no step changes it, and once its
\* uuid is set no step changes it, in the login, in the forwarding phase
\* and in a server swap; a swap changes the server and the upstream
\* connection of the session.
C23_IdentityFixed ==
  [][/\ IsSome(player.name) => player'.name = player.name
     /\ IsSome(player.uuid) => player'.uuid = player.uuid]_vars

\* connect_to_server has moved the session from server A (upstream 1) to
\* server B (upstream 2); name and uuid are those of the login
C23_Witness ==
  /\ player.name = Some("n")
  /\ player.uuid = Some("u")
  /\ peer[1] = "A"
  /\ player.server = Some("B")
  /\ player.server_conn = 2
  /\ peer[2] = "B"
  /\ swaplog # << >>
  /\ swaplog[1].result = "spawned"

(* ----------------------------- failed swaps ---------------------------- *)

\* a swap failed with an I/O error: connect() returned Err in the swap
\* call, or the connect thread returned Err from ProxyPlayer::connect
SwapFailed ==
  \/ \E i \in 1..Len(swaplog) : swaplog[i].result = "err"
  \/ \E t \in ConThreads : pc[t] = "failed"

\* nothing of the session is running any more
Quiet ==
  /\ pc[ACC] = "done"
  /\ \A t \in LoopThreads : TaskOver(t)
  /\ \A t \in ConThreads : pc[t] \in {"unspawned", "done", "failed"}

\* C24: a swap that failed with an I/O error starts no forwarding task on
\* the new upstream, and once everything of the session has come to rest
\* the new upstream socket is closed by the proxy and the session is
\* terminated: it is not in players and its client socket is not open.
C24_FailedSwapEndsSession ==
  (SwapFailed /\ Quiet) =>
    /\ \A t \in LoopThreads : lconn[t] = 1
    /\ \A s \in UpSocks : sock[s] # "none" => ProxyClosed(sock, s)
    /\ ~InPlayers(P1)
    /\ sock[ClientSock] # "open"

(* ---------------------------- replayed login --------------------------- *)

\* the connect thread of a swap has got as far as it gets
ReplayStopped(t) == pc[t] \in {"done", "deadlocked", "panicked"}

\* C25: once the connect thread of a swap has come to rest, the new
\* upstream has received the handshake with next_state 2 first and
\* LoginStart second, and the old upstream socket was shut down by the
\* proxy.
C25_ReplayOrder ==
  \A t \in ConThreads :
    ReplayStopped(t) =>
      LET s == sent[lconn[t]] IN
      /\ sock[1] = "shut"
      /\ Len(s) >= 2
      /\ s[1].tag = "handshake" /\ s[1].id = 0 /\ s[1].n = 2
      /\ s[2].tag = "login_start" /\ s[2].id = 0

(* --------------------------- upstream field ---------------------------- *)

\* the latest call of the swap API
LastSwap == swaplog[Len(swaplog)]

\* C26: after a swap whose connect() succeeded the server field of the
\* session names the upstream the session is connected to: the listeners'
\* server after connect_to_server, None after connect_to_ip.
C26_UpstreamField ==
  (swaplog # << >> /\ LastSwap.result = "spawned") =>
    /\ LastSwap.kind = "server" =>
         /\ player.server = Some(LastSwap.target)
         /\ peer[player.server_conn] = LastSwap.target
    /\ LastSwap.kind = "ip" => player.server = None

(* ---------------------------- LoginSuccess ----------------------------- *)

\* the frames with the given tag among those the proxy wrote to socket s
Frames(s, tag) == SelectSeq(sent[s], LAMBDA f : f.tag = tag)

\* accept_client has left its login loop behind and goes on to Play
PastLogin == pc[ACC] \in {"ev_connected", "connect", "done"}

\* C27: in the initial login, when accept_client goes on to Play after it
\* forwarded the upstream's LoginSuccess to the client, the proxy's latest
\* frame to the upstream is a LoginAcknowledged (0x03) it built itself.
C27_LoginAckWritten ==
  (PastLogin /\ Frames(ClientSock, "login_success") # << >>) =>
    /\ sent[1] # << >>
    /\ sent[1][Len(sent[1])].id = 3

\* C28: PlayerConnectedEvent is dispatched and the forwarding tasks are
\* spawned only after the upstream's LoginSuccess (0x02) was read and
\* mirrored to the client.
C28_ConnectedAfterSuccess ==
  (emitted["connected"] > 0 \/ \E t \in LoopThreads : pc[t] # "unspawned")
    => Frames(ClientSock, "login_success") # << >>

(* ---------------- encryption response of the replayed login ------------ *)

\* Packet::empty(0x01) with write_usize_varint(shared_secret.len()),
\* write_bytes(&shared_secret), write_usize_varint(shared_secret.len()),
\* write_bytes(&verify_token)
BuildEncResponse(ss, vt) ==
  EncResponse(<<Len(ss)>> \o ss \o <<Len(ss)>> \o vt)

\* The code of ProxyPlayer::connect for an EncryptionRequest (0x01) of the
\* new upstream, taken by itself for a session that finished its login: if
\* the player holds a shared secret and a verify token, build the response,
\* dispatch SendServerPacketEvent and write the packet unless cancelled.
\* (In the program the connect thread stops in send_login before it reads
\* a packet of the new upstream.)
ReplayEnc ==
  /\ Forwarding
  /\ ProxyFree /\ SessionFree
  /\ nread[CON(1)] = 0
  /\ nread' = [nread EXCEPT ![CON(1)] = 1]
  /\ IF IsSome(player.shared_secret) /\ IsSome(player.verify_token)
     THEN \E e \in trigger_event(
                     Event("send_server",
                           BuildEncResponse(Unwrap(player.shared_secret),
                                            Unwrap(player.verify_token)),
                           "none")) :
            /\ lastev' = Record(e)
            /\ sent' = IF SendCancel(e) THEN sent
                       ELSE Write(sent, player.server_conn, e.pkt)
     ELSE UNCHANGED <<sent, lastev>>
  /\ UNCHANGED <<pc, mlock, plock, cfg, player, players, sock, comp, peer,
                 lconn, rlog, nswaps, nup, emitted, removed, inserted, error,
                 swaplog, stop, event_listeners, ret, disp>>

\* A login with an encryption exchange for every pair of shared secret and
\* verify token, then the reply to an EncryptionRequest built from the
\* captured pair.
NextEnc ==
  \/ AcceptHandshake({"ok"}, {2}, {"other"}, {TRUE})
  \/ ConnectingEvent
  \/ LoginStart({"ok"})
  \/ LoginLoop({"pkt"}, {1, 2}, {1}, 1)
  \/ LoginEnc({"ok"}, Secrets)
  \/ ConnectedEvent
  \/ ConnectLogged
  \/ ReplayEnc

SpecEnc == Init /\ [][NextEnc]_vars

\* the encryption responses written to the session's upstream connection
EncResponses == Frames(player.server_conn, "encryption_response")

\* C29: the response the proxy builds for an EncryptionRequest, as written
\* (not rewritten by a listener), has the payload varint(len(shared_secret))
\* || shared_secret || varint(len(verify_token)) || verify_token of the
\* values captured in the initial login.
C29_EncResponseFormat ==
  (nread[CON(1)] = 1 /\ Len(EncResponses) = 2 /\ EncResponses[2].b = 0) =>
    EncResponses[2].n = EncPayload(Unwrap(player.shared_secret),
                                   Unwrap(player.verify_token))

(* ------------------------------ LoginStart ----------------------------- *)

\* the first client frame of the login had another id than 0x00, or could
\* not be read as a string and a uuid
BadLoginStart ==
  /\ inserted = 1
  /\ \/ Len(sent[1]) >= 2 /\ sent[1][2].id # 0
     \/ Len(sent[1]) = 1 /\ pc[ACC] = "failed" /\ error = "ProtocolError"

\* C30: when the first client frame of the login is no LoginStart (another
\* id, or malformed) accept_client fails with LoginPacket, both connections
\* are closed, no forwarding task is spawned and the session is not in
\* players.
C30_LoginStartRequired ==
  BadLoginStart =>
    /\ error = "LoginPacket"
    /\ sock[ClientSock] # "open" /\ sock[1] # "open"
    /\ \A t \in LoopThreads : pc[t] = "unspawned"
    /\ ~InPlayers(P1)

(* --------------------- the listeners' target server -------------------- *)

\* C31: in every state the server in the session's server field is the
\* server its upstream connection is connected to, also when a listener
\* put another server into a PlayerConnectingServerEvent that was not
\* cancelled.
C31_ServerIsConnected ==
  (player.exists /\ IsSome(player.server))
    => peer[player.server_conn] = Unwrap(player.server)

(* ----------------------- SetCompression in the login ------------------- *)

\* the threshold in force for the i-th frame the proxy wrote to the client:
\* that of the latest SetCompression frame written before it
ThresholdBefore(i) ==
  LET S == sent[ClientSock]
      J == {j \in 1..(i - 1) : S[j].tag = "set_compression"}
  IN IF J = {} THEN None
     ELSE Threshold(S[CHOOSE j \in J : \A k \in J : k <= j].n)

\* the frames the proxy has mirrored to the client in the login
Mirrored == Len(sent[ClientSock])

\* C32: in the initial login every frame read from the upstream is written
\* to the client before it is looked at (a SetCompression that cannot be
\* parsed included); a SetCompression frame goes out in the framing in
\* force before it, every later frame to the client in the framing it set;
\* after every step both codecs have the threshold of the latest
\* SetCompression, so every frame written later, in either direction (the
\* encryption response to the upstream included), is framed with it.
C32_MirrorThenApply ==
  /\ [](HandshakeState = 2 =>
          /\ \A i \in 1..Mirrored : sent[ClientSock][i].z = ThresholdBefore(i)
          /\ comp[ClientSock] = ThresholdBefore(Mirrored + 1)
          /\ sock[1] # "none" => comp[1] = ThresholdBefore(Mirrored + 1)
          /\ Mirrored = nread[ACC] + Len(Frames(ClientSock, "malformed")))
  /\ [][(HandshakeState = 2 /\ Len(sent'[1]) = Len(sent[1]) + 1) =>
          sent'[1][Len(sent'[1])].z = ThresholdBefore(Mirrored + 1)]_vars

\* the upstream sent SetCompression and then EncryptionRequest: the first
\* went to the client uncompressed, the second with the threshold set, and
\* the client's encryption response went upstream with that threshold
C32_Witness ==
  /\ Mirrored = 2
  /\ sent[ClientSock][1].tag = "set_compression"
  /\ sent[ClientSock][1].z = None
  /\ sent[ClientSock][2].tag = "encryption_request"
  /\ sent[ClientSock][2].z = Threshold(sent[ClientSock][1].n)
  /\ sent[ClientSock][2].z # None
  /\ Len(sent[1]) = 3
  /\ sent[1][3].tag = "encryption_response"
  /\ sent[1][3].z = sent[ClientSock][2].z

(* ------------------- cancelled login (connecting event) ---------------- *)

\* the PlayerConnectingServerEvent of the initial login was cancelled:
\* accept_client has returned Ok after the event, before the insertion
LoginCancelled ==
  /\ lastev.kind = "connecting_server"
  /\ lastev.cancel
  /\ nswaps = 0

\* C33: when the PlayerConnectingServerEvent of the initial login is
\* cancelled, accept_client returns: the session was never inserted into
\* players, nothing but the handshake was written upstream (no LoginStart),
\* nothing was written to the client, neither PlayerConnectedEvent nor
\* PlayerDisconnectedEvent was dispatched, no task exists and both sockets
\* are closed.
C33_CancelledLoginCloses ==
  LoginCancelled =>
    /\ pc[ACC] = "closed"
    /\ inserted = 0 /\ players = << >>
    /\ Len(sent[1]) = 1
    /\ sent[ClientSock] = << >>
    /\ emitted["connected"] = 0 /\ emitted["disconnected"] = 0
    /\ error = "none"
    /\ \A t \in LoopThreads : pc[t] = "unspawned"
    /\ sock[ClientSock] = "closed" /\ sock[1] = "closed"

\* the listener put server B into the event and cancelled it
C33_Witness ==
  /\ LoginCancelled
  /\ lastev.target = "B"
  /\ Len(lastev.calls) = 2
  /\ player.exists
  /\ peer[1] = "A"
  /\ sock[ClientSock] = "closed" /\ sock[1] = "closed"

(* --------------------------- the session set --------------------------- *)

\* the uuids the clients log in with
Uuids == {"u", "v"}

\* An entry of players here: the pointer of the Arc and the uuid the
\* session holds (None until LoginStart is read).
Session(p, u) == [ptr |-> p, uuid |-> u]

\* MeexProx::get_player: the first session in players whose uuid is u
get_player(seq, u) ==
  LET I == {i \in 1..Len(seq) : seq[i].uuid = Some(u)}
  IN IF I = {} THEN None
     ELSE Some(seq[CHOOSE i \in I : \A j \in I : i <= j])

\* this.lock().unwrap().players.push(player.clone()) in accept_client, for
\* a new session (a new Arc, its uuid not set yet)
PushPlayer ==
  /\ ProxyFree
  /\ inserted < MaxSessions
  /\ inserted' = inserted + 1
  /\ players' = Append(players, Session(inserted + 1, None))
  /\ UNCHANGED <<pc, mlock, plock, cfg, player, sock, comp, peer, sent,
                 lconn, rlog, nread, nswaps, nup, emitted, removed, error,
                 swaplog, stop, event_listeners, lastev, ret, disp>>

\* player.lock().unwrap().uuid = Some(login_start.read_uuid()?) for the
\* i-th session of the set
SetUuid(i, u) ==
  /\ i \in 1..Len(players)
  /\ players[i].uuid = None
  /\ players' = [players EXCEPT ![i].uuid = Some(u)]
  /\ UNCHANGED <<pc, mlock, plock, cfg, player, sock, comp, peer, sent,
                 lconn, rlog, nread, nswaps, nup, emitted, removed, inserted,
                 error, swaplog, stop, event_listeners, lastev, ret, disp>>

\* a call of remove_player for the session with pointer p (in the set, or
\* removed before, or never inserted)
RemoveCall(p) ==
  /\ ProxyFree
  /\ LET r == remove_player(players, [ptr |-> p]) IN
       /\ players' = r.players
       /\ removed' = IF r.found THEN removed + 1 ELSE removed
       /\ ret' = [op |-> "remove", arg |-> p, before |-> players,
                  after |-> r.players, result |-> r.found]
  /\ UNCHANGED <<pc, mlock, plock, cfg, player, sock, comp, peer, sent,
                 lconn, rlog, nread, nswaps, nup, emitted, inserted, error,
                 swaplog, stop, event_listeners, lastev, disp>>

\* a call of get_player(u)
GetCall(u) ==
  /\ ProxyFree
  /\ ret' = [op |-> "get", arg |-> u, before |-> players,
             after |-> players, result |-> get_player(players, u)]
  /\ UNCHANGED <<pc, mlock, plock, cfg, player, players, sock, comp, peer,
                 sent, lconn, rlog, nread, nswaps, nup, emitted, removed,
                 inserted, error, swaplog, stop, event_listeners, lastev, disp>>

\* Sessions are pushed to the set and get their uuid, in any order with
\* calls of remove_player and get_player.
NextSet ==
  \/ PushPlayer
  \/ \E i \in 1..MaxSessions, u \in Uuids : SetUuid(i, u)
  \/ \E p \in 1..MaxSessions : RemoveCall(p)
  \/ \E u \in Uuids : GetCall(u)

SpecSet == Init /\ [][NextSet]_vars

\* the entries of seq that are not the session with pointer p, in order
Others(seq, p) == SelectSeq(seq, LAMBDA x : x.ptr # p)

\* the session with pointer p is in seq
Has(seq, p) == \E i \in 1..Len(seq) : seq[i].ptr = p

\* C34: remove_player(p) returns true and removes the entry that is p, and
\* only it, when p is in the set: the other sessions (those with the same
\* uuid too) stay, in their order; it returns false and changes nothing
\* when p is not in the set; a session it removed is not in the set after
\* the call, and no session is in the set twice, so a second call for it
\* returns false.  get_player(u) returns a session of the set whose uuid is
\* u, and none exactly when the set has no session with uuid u.
C34_SetOperations ==
  /\ \A i, j \in 1..Len(players) : players[i].ptr = players[j].ptr => i = j
  /\ Len(players) = inserted - removed
  /\ ret.op = "remove" =>
       /\ ret.result = Has(ret.before, ret.arg)
       /\ ret.after = Others(ret.before, ret.arg)
       /\ ~Has(ret.after, ret.arg)
       /\ Len(ret.after) = Len(ret.before) - (IF ret.result THEN 1 ELSE 0)
       /\ ~ret.result => ret.after = ret.before
  /\ ret.op = "get" =>
       /\ ret.after = ret.before
       /\ IsSome(ret.result) =>
            /\ \E i \in 1..Len(ret.before) : ret.before[i] = Unwrap(ret.result)
            /\ Unwrap(ret.result).uuid = Some(ret.arg)
       /\ ret.result = None <=>
            \A i \in 1..Len(ret.before) : ret.before[i].uuid # Some(ret.arg)

\* three sessions were in the set, the second and the third with the same
\* uuid; remove_player for the second returned true and left the first and
\* the third, in this order
C34_Witness ==
  /\ ret.op = "remove"
  /\ ret.result
  /\ Len(ret.before) = 3
  /\ ret.arg = ret.before[2].ptr
  /\ ret.before[2].uuid = Some("u")
  /\ ret.before[3].uuid = Some("u")
  /\ ret.after = <<ret.before[1], ret.before[3]>>

(* ---------------------------- lock discipline -------------------------- *)

\* thread t has locked a mutex it holds already: its lock() never returns
SelfLocked(t) == pc[t] \in {"deadlocked", "panicked"}

\* C35: no thread locks the proxy mutex or the session mutex while it
\* holds that mutex, so no thread is ever stopped for good at a lock() and
\* neither mutex is ever held for ever.
C35_LockDiscipline ==
  /\ \A t \in Threads : ~SelfLocked(t)
  /\ mlock = NoThread
  /\ plock = NoThread

(* ------------------- trigger_event, listener by listener --------------- *)

\* a faulty trigger_event: the guard is dropped before the loop (the loop
\* runs on a copy of the listeners)
AcquireNone(t) == NoThread

\* this.lock().unwrap() in the iterator expression of the for loop of
\* trigger_event: the guard lives until the loop has ended
Acquire(t) == t

\* thread t is inside trigger_event
Dispatching(t) == disp[t].i > 0

\* thread t calls trigger_event: it takes the proxy mutex and starts the
\* loop over the listeners
BeginDispatch(t) ==
  /\ ~Dispatching(t)
  /\ ProxyFree
  /\ mlock' = Acquire(t)
  /\ disp' = [disp EXCEPT ![t] = [i |-> 1, on |-> FALSE]]
  /\ UNCHANGED <<pc, plock, cfg, player, players, sock, comp, peer, sent,
                 lconn, rlog, nread, nswaps, nup, emitted, removed, inserted,
                 error, swaplog, stop, event_listeners, lastev, ret>>

\* event_listener.on_event(this.clone(), &mut event) is entered
EnterListener(t) ==
  /\ Dispatching(t)
  /\ ~disp[t].on
  /\ disp[t].i <= Len(event_listeners)
  /\ disp' = [disp EXCEPT ![t].on = TRUE]
  /\ UNCHANGED <<pc, mlock, plock, cfg, player, players, sock, comp, peer,
                 sent, lconn, rlog, nread, nswaps, nup, emitted, removed,
                 inserted, error, swaplog, stop, event_listeners, lastev, ret>>

\* ... and returns (let _ =): the loop goes on to the next listener
ReturnListener(t) ==
  /\ disp[t].on
  /\ disp' = [disp EXCEPT ![t] = [i |-> disp[t].i + 1, on |-> FALSE]]
  /\ UNCHANGED <<pc, mlock, plock, cfg, player, players, sock, comp, peer,
                 sent, lconn, rlog, nread, nswaps, nup, emitted, removed,
                 inserted, error, swaplog, stop, event_listeners, lastev, ret>>

\* the loop has ended: the guard is dropped and the event returned
EndDispatch(t) ==
  /\ Dispatching(t)
  /\ ~disp[t].on
  /\ disp[t].i > Len(event_listeners)
  /\ mlock' = IF mlock = t THEN NoThread ELSE mlock
  /\ disp' = [disp EXCEPT ![t] = NoDispatch]
  /\ UNCHANGED <<pc, plock, cfg, player, players, sock, comp, peer, sent,
                 lconn, rlog, nread, nswaps, nup, emitted, removed, inserted,
                 error, swaplog, stop, event_listeners, lastev, ret>>

\* the threads that call into the proxy: accept_client and the two
\* forwarding tasks
SerThreads == {ACC, C2S, S2C}

\* the proxy at start() with two listeners registered
InitSer ==
  /\ InitProxy
  /\ event_listeners = <<1, 2>>
  /\ lastev = [kind |-> "off"]
  /\ ret = [op |-> "none"]
  /\ disp = [t \in Threads |-> NoDispatch]

\* Every thread is, at any time, outside the proxy mutex or in one of its
\* critical sections: a dispatch (trigger_event), an insertion into players
\* (accept_client) or a removal (remove_player after a loop).
NextSer ==
  \/ \E t \in SerThreads :
       \/ BeginDispatch(t)
       \/ EnterListener(t)
       \/ ReturnListener(t)
       \/ EndDispatch(t)
  \/ PushPlayer
  \/ \E p \in 1..MaxSessions : RemoveCall(p)

SpecSer == InitSer /\ [][NextSer]_vars

\* C36: at any instant at most one on_event call is executing and at most
\* one thread is inside trigger_event, and it holds the proxy mutex; a
\* dispatch that has begun runs through all listeners with no step of
\* another dispatch and no insertion into or removal from players in
\* between.
C36_DispatchSerialized ==
  /\ [](\A t, u \in SerThreads : (Dispatching(t) /\ Dispatching(u)) => t = u)
  /\ [](\A t \in SerThreads : Dispatching(t) => mlock = t)
  /\ [][(\E t \in SerThreads : Dispatching(t)) =>
          /\ players' = players
          /\ inserted' = inserted /\ removed' = removed /\ ret' = ret
          /\ \A u \in SerThreads : ~Dispatching(u) => ~Dispatching(u)']_vars

\* a forwarding task is inside on_event of the second listener, holding the
\* proxy mutex; a session is in players, another was removed, and no other
\* thread is dispatching
C36_Witness ==
  /\ disp[C2S] = [i |-> 2, on |-> TRUE]
  /\ mlock = C2S
  /\ Len(players) = 1
  /\ removed = 1
  /\ ~Dispatching(ACC) /\ ~Dispatching(S2C)

(* ------------------ the client's framing across a swap ----------------- *)

\* the threshold varints a new upstream sends in a SetCompression
ReplayRaws == {-1, 1}

\* The code of ProxyPlayer::connect for a SetCompression (0x03) of the new
\* upstream, taken by itself for a session that finished its login: the
\* threshold is set on the upstream codec and on the client codec, and
\* nothing is written to the client.  (In the program the connect thread
\* stops in send_login before it reads a packet of the new upstream.)
ReplaySetCompression(raw) ==
  /\ Forwarding
  /\ ProxyFree /\ SessionFree
  /\ nread[CON(1)] < 2
  /\ nread' = [nread EXCEPT ![CON(1)] = @ + 1]
  /\ comp' = SetCompression(comp, player.server_conn, raw)
  /\ UNCHANGED <<pc, mlock, plock, cfg, player, players, sock, sent, peer,
                 lconn, rlog, nswaps, nup, emitted, removed, inserted, error,
                 swaplog, stop, event_listeners, lastev, ret, disp>>

\* A login, then the replies of ProxyPlayer::connect to the packets of the
\* login sub-protocol of a new upstream.
NextReplay ==
  \/ NextEnc
  \/ \E raw \in ReplayRaws : ReplaySetCompression(raw)

SpecReplay == Init /\ [][NextReplay]_vars

\* the threshold the client was last told to use: that of the latest
\* SetCompression frame the proxy delivered to it, None if there is none
ClientTold == ThresholdBefore(Len(sent[ClientSock]) + 1)

\* C37: the proxy changes the threshold of its client-side codec only in a
\* step in which it has written a SetCompression frame to the client, and
\* the threshold of the client-side codec is always the one the client was
\* last told to use.
C37_ClientFraming ==
  /\ [](comp[ClientSock] = ClientTold)
  /\ [][comp'[ClientSock] # comp[ClientSock] =>
          /\ Len(sent'[ClientSock]) = Len(sent[ClientSock]) + 1
          /\ sent'[ClientSock][Len(sent'[ClientSock])].tag
               = "set_compression"]_vars

(* --------------------------- half-open sessions ------------------------ *)

\* the steps of a session the proxy takes by itself: they wait for no peer
\* (a forwarding step waits in read_packet() for its source)
OwnStep ==
  \/ ConnectingEvent
  \/ ConnectedEvent
  \/ ConnectLogged
  \/ \E t \in LoopThreads :
       \/ TaskStart(t)
       \/ LoopExit(t)
       \/ DisconnectedEvent(t)

\* One session from its login to the end of its forwarding tasks, with no
\* swap.
NextLive ==
  \/ AcceptHandshake({"ok"}, {2}, {"other"}, {TRUE})
  \/ LoginStart({"ok"})
  \/ LoginLoop({"pkt"}, {2, 3}, {1}, 1)
  \/ \E t \in LoopThreads : FwdStep(t)
  \/ OwnStep

\* every spawned task is polled and a thread that is not waiting for a peer
\* goes on
SpecLive == Init /\ [][NextLive]_vars /\ WF_vars(OwnStep)

\* the forwarding loop of task t has ended on a failed read or write
LoopFailed(t) == pc[t] = "exit" /\ stop[t] = "peer"

\* C38: once a forwarding loop of a session has ended on EOF or an I/O
\* error, eventually neither socket of the session is open and the loop of
\* the other direction has ended as well.
C38_NoHalfOpen ==
  \A t \in LoopThreads :
    LoopFailed(t) ~>
      /\ \A s \in {ClientSock, lconn[t]} : sock[s] # "open"
      /\ \A u \in LoopThreads : LoopEnded(u) \/ TaskOver(u)
=============================================================================
